---- MODULE Spec2Model ----
(***************************************************************************)
(* Model of github.com/meblum/jwt (src/jwt.go, the current variant at      *)
(* lines 525-820): the Verifier, its keyCache guarded by a sync.RWMutex,   *)
(* the key-set decoder and the token pipeline of ParseAndVerify.           *)
(*                                                                         *)
(* Strings are sequences of character codes: 0..63 are the 64 digits of    *)
(* the base64url alphabet (the code is the digit's value), Dot is '.',     *)
(* and BadChar is any character outside the alphabet.  Byte strings are    *)
(* sequences of 0..255.  Time is counted in clock ticks, TicksPerSec of    *)
(* them to the second.                                                     *)
(***************************************************************************)
EXTENDS Integers, Sequences, FiniteSets, TLC

\* ------------------------------------------------------------------ bounds
MaxTime == 4
MaxFetch == 2
ConcMaxTime == 3
ConcMaxFetch == 3
MaxTTL == 2
TwiceMaxFetch == 3
TicksPerSec == 2

\* --------------------------------------------------------------- alphabet
Dot == 64
BadChar == 65
ZeroTime == 0
StartTime == 1

Threads == {"t1", "t2"}
MainThread == "t1"
NoThread == "none"

\* ------------------------------------------------- base64.RawURLEncoding
B64Digit(c) == c >= 0 /\ c <= 63

AllDigits(s) == \A i \in 1..Len(s) : B64Digit(s[i])

RECURSIVE DecodeDigits(_)
\* The bytes of a string of base64 digits: each full group of four digits
\* gives three bytes; a trailing group of two gives one byte and of three
\* gives two, the bits left over being dropped without being looked at.
DecodeDigits(s) ==
  IF Len(s) >= 4
    THEN LET v == s[1] * 262144 + s[2] * 4096 + s[3] * 64 + s[4]
         IN  <<v \div 65536, (v \div 256) % 256, v % 256>>
               \o DecodeDigits(SubSeq(s, 5, Len(s)))
  ELSE IF Len(s) = 3
    THEN LET v == s[1] * 4096 + s[2] * 64 + s[3]
         IN  <<v \div 1024, (v \div 4) % 256>>
  ELSE IF Len(s) = 2
    THEN <<(s[1] * 64 + s[2]) \div 16>>
  ELSE <<>>

\* base64.RawURLEncoding.DecodeString: an error for a character outside the
\* alphabet (padding included) and for a lone trailing digit.
DecodeString(s) ==
  IF ~AllDigits(s) \/ Len(s) % 4 = 1
    THEN [err |-> TRUE, bytes |-> <<>>]
    ELSE [err |-> FALSE, bytes |-> DecodeDigits(s)]

RECURSIVE SetBytesLittleEndian(_)
\* Mutation: the least significant byte comes first.
SetBytesLittleEndian(b) ==
  IF Len(b) = 0 THEN 0
  ELSE b[1] + 256 * SetBytesLittleEndian(SubSeq(b, 2, Len(b)))

RECURSIVE SetBytes(_)
\* big.Int.SetBytes: the big-endian unsigned integer of a byte string.
SetBytes(b) ==
  IF Len(b) = 0 THEN 0
  ELSE SetBytes(SubSeq(b, 1, Len(b) - 1)) * 256 + b[Len(b)]

\* The width of the machine word, int64 and int, scaled down from 64 bits to
\* what the integers of the checker hold.
WordBits == 24

\* big.Int.Int64 followed by int(e): the low WordBits bits of x, read as a
\* signed two's-complement number; x itself when it fits.
Int64(x) ==
  LET low == x % (2 ^ WordBits)
  IN  IF low >= 2 ^ (WordBits - 1) THEN low - 2 ^ WordBits ELSE low

\* -------------------------------------------------------------- key sets
\* A key-set document after json decoding: kind "garbage" does not parse,
\* kind "null" is the JSON value null, kind "object" is an object whose
\* "keys" member is a list (hasKeys) or is absent or null (~hasKeys).
\* An entry is [n, e : strings, kid : name].
K1n == <<46, 48>>            \* base64url of the byte 187 (= 11 * 17)
K2n == <<35, 48>>            \* base64url of the byte 143 (= 11 * 13)
AQAB == <<0, 16, 0, 1>>      \* base64url of 01 00 01 (= 65537)
WideE == <<0, 16, 4, 0, 0, 16>>  \* base64url of 01 01 00 01 (= 2^24 + 65537)

Entry(kid, n, e) == [kid |-> kid, n |-> n, e |-> e]

Object(keys) == [kind |-> "object", hasKeys |-> TRUE, keys |-> keys]

DocGarbage == [kind |-> "garbage", hasKeys |-> FALSE, keys |-> <<>>]
DocNull == [kind |-> "null", hasKeys |-> FALSE, keys |-> <<>>]
DocNoKeys == [kind |-> "object", hasKeys |-> FALSE, keys |-> <<>>]
DocEmpty == Object(<<>>)
DocK1 == Object(<<Entry("k1", K1n, AQAB)>>)
DocK2 == Object(<<Entry("k2", K2n, AQAB)>>)
DocK1K2 == Object(<<Entry("k1", K1n, AQAB), Entry("k2", K2n, AQAB)>>)
DocMissing == Object(<<Entry("k1", K1n, AQAB), Entry("k2", K2n, <<>>)>>)
DocBadN == Object(<<Entry("k1", K1n, AQAB), Entry("k2", <<35, BadChar>>, AQAB)>>)
DocBadE == Object(<<Entry("k2", K2n, <<0>>)>>)
DocBadNMissing == Object(<<Entry("k1", <<35, BadChar>>, AQAB), Entry("", K2n, AQAB)>>)
DocDup == Object(<<Entry("k1", K1n, AQAB), Entry("k1", K2n, AQAB)>>)
DocWideE == Object(<<Entry("k1", K1n, WideE)>>)

Docs == {DocGarbage, DocNull, DocNoKeys, DocEmpty, DocK1, DocK2, DocK1K2,
         DocMissing, DocBadN, DocBadE, DocBadNMissing, DocDup, DocWideE}

EmptyMap == [k \in {} |-> [N |-> 0, E |-> 0]]

MapPut(m, k, v) == [x \in DOMAIN m \cup {k} |-> IF x = k THEN v ELSE m[x]]

\* Mutation: a nil key list is not tested for.
parseJWKSNoNilCheck(doc) ==
  IF doc.kind = "garbage" THEN [err |-> <<"decode json">>, keys |-> <<>>]
  ELSE IF doc.kind = "null" \/ ~doc.hasKeys THEN [err |-> <<>>, keys |-> <<>>]
  ELSE [err |-> <<>>, keys |-> doc.keys]

\* parseJWKS: the decoded document, or an error when it does not parse or
\* when its key list is nil.
parseJWKS(doc) ==
  IF doc.kind = "garbage" THEN [err |-> <<"decode json">>, keys |-> <<>>]
  ELSE IF doc.kind = "null" \/ ~doc.hasKeys
    THEN [err |-> <<"empty key list">>, keys |-> <<>>]
  ELSE [err |-> <<>>, keys |-> doc.keys]

RECURSIVE DecodeEntriesButLast(_, _, _)
\* Mutation: the loop stops one entry early.
DecodeEntriesButLast(keys, i, m) ==
  IF i >= Len(keys) THEN [err |-> <<>>, m |-> m]
  ELSE LET v == keys[i]
           decodedN == DecodeString(v.n)
           decodedE == DecodeString(v.e)
       IN  IF v.e = <<>> \/ v.n = <<>> \/ v.kid = ""
             THEN [err |-> <<"missing info in JWK">>, m |-> EmptyMap]
           ELSE IF decodedN.err
             THEN [err |-> <<"unable to base64 decode jwk n value">>, m |-> EmptyMap]
           ELSE IF decodedE.err
             THEN [err |-> <<"unable to base64 decode jwk e value">>, m |-> EmptyMap]
           ELSE DecodeEntriesButLast(keys, i + 1,
                  MapPut(m, v.kid, [N |-> SetBytes(decodedN.bytes),
                                    E |-> Int64(SetBytes(decodedE.bytes))]))

RECURSIVE DecodeEntries(_, _, _)
\* The loop of UpdatePublicKey over jwks.Keys from entry i on, filling the
\* local map m; it returns at the first entry it cannot take.
DecodeEntries(keys, i, m) ==
  IF i > Len(keys) THEN [err |-> <<>>, m |-> m]
  ELSE LET v == keys[i]
           decodedN == DecodeString(v.n)
           decodedE == DecodeString(v.e)
       IN  IF v.e = <<>> \/ v.n = <<>> \/ v.kid = ""
             THEN [err |-> <<"missing info in JWK">>, m |-> EmptyMap]
           ELSE IF decodedN.err
             THEN [err |-> <<"unable to base64 decode jwk n value">>, m |-> EmptyMap]
           ELSE IF decodedE.err
             THEN [err |-> <<"unable to base64 decode jwk e value">>, m |-> EmptyMap]
           ELSE DecodeEntries(keys, i + 1,
                  MapPut(m, v.kid, [N |-> SetBytes(decodedN.bytes),
                                    E |-> Int64(SetBytes(decodedE.bytes))]))

RECURSIVE DecodeEntriesSkipping(_, _, _)
\* Mutation: an entry that cannot be taken is skipped, the rest is kept.
DecodeEntriesSkipping(keys, i, m) ==
  IF i > Len(keys) THEN [err |-> <<>>, m |-> m]
  ELSE LET v == keys[i]
           one == DecodeEntries(<<v>>, 1, EmptyMap)
       IN  DecodeEntriesSkipping(keys, i + 1,
             IF one.err # <<>> THEN m ELSE MapPut(m, v.kid, one.m[v.kid]))

BuildKeyMapSkipsBadEntries(doc) ==
  LET jwks == parseJWKS(doc)
      built == DecodeEntriesSkipping(jwks.keys, 1, EmptyMap)
  IN  IF jwks.err # <<>>
        THEN [err |-> <<"unable to parse JWKS">> \o jwks.err, m |-> EmptyMap]
      ELSE IF Cardinality(DOMAIN built.m) = 0
        THEN [err |-> <<"no public keys">>, m |-> EmptyMap]
      ELSE built

\* Mutation: the test len(m) == 0 is missing.
BuildKeyMapNoEmptyCheck(doc) ==
  LET jwks == parseJWKS(doc)
      built == DecodeEntries(jwks.keys, 1, EmptyMap)
  IN  IF jwks.err # <<>>
        THEN [err |-> <<"unable to parse JWKS">> \o jwks.err, m |-> EmptyMap]
      ELSE built

\* The part of UpdatePublicKey that runs before the lock is taken: parse
\* the document, build the local map and refuse an empty one.
BuildKeyMap(doc) ==
  LET jwks == parseJWKS(doc)
      built == DecodeEntries(jwks.keys, 1, EmptyMap)
  IN  IF jwks.err # <<>>
        THEN [err |-> <<"unable to parse JWKS">> \o jwks.err, m |-> EmptyMap]
      ELSE IF built.err # <<>> THEN built
      ELSE IF Cardinality(DOMAIN built.m) = 0
        THEN [err |-> <<"no public keys">>, m |-> EmptyMap]
      ELSE built

\* ------------------------------------------------------------------ tokens
RECURSIVE Split(_)
\* strings.Split(tokenString, "."): the segments between the dots, one more
\* than there are dots.
Split(s) ==
  IF \E i \in 1..Len(s) : s[i] = Dot
    THEN LET i == CHOOSE j \in 1..Len(s) :
                    s[j] = Dot /\ \A k \in 1..(j - 1) : s[k] # Dot
         IN  <<SubSeq(s, 1, i - 1)>> \o Split(SubSeq(s, i + 1, Len(s)))
    ELSE <<s>>

\* strings.Join(parts[0:2], ".")
JoinDot(a, b) == a \o <<Dot>> \o b

Issuer == "https://accounts.google.com"
ClientID == "client-123"

NoHeader == [ALG |-> "", KID |-> ""]
NoClaims == [ISS |-> "", AUD |-> "", IAT |-> 0, EXP |-> 0]
NoJWT == [Header |-> NoHeader, Claims |-> NoClaims, Signature |-> <<>>]

\* json.Unmarshal into JWT.Header.  A header is written as one byte here:
\* 4, 8 and 12 are the three headers below, any other text is not JSON.
UnmarshalHeader(h) ==
  IF h = <<4>> THEN [err |-> FALSE, v |-> [ALG |-> "RS256", KID |-> "k1"]]
  ELSE IF h = <<8>> THEN [err |-> FALSE, v |-> [ALG |-> "RS256", KID |-> "k2"]]
  ELSE IF h = <<12>> THEN [err |-> FALSE, v |-> [ALG |-> "HS256", KID |-> "k1"]]
  ELSE [err |-> TRUE, v |-> NoHeader]

\* json.Unmarshal into JWT.Claims.  A claims object is written as the four
\* bytes iss, aud, iat, exp here (1 naming the Google issuer and the
\* configured client); any other length is not JSON.
UnmarshalClaims(c) ==
  IF Len(c) = 4
    THEN [err |-> FALSE,
          v |-> [ISS |-> IF c[1] = 1 THEN Issuer ELSE "https://accounts.google.co",
                 AUD |-> IF c[2] = 1 THEN ClientID ELSE "other-client",
                 IAT |-> c[3], EXP |-> c[4]]]
    ELSE [err |-> TRUE, v |-> NoClaims]

\* parseJWT(header, claims, signature)
parseJWT(header, claims, signature) ==
  LET h == DecodeString(header)
      hv == UnmarshalHeader(h.bytes)
      c == DecodeString(claims)
      cv == UnmarshalClaims(c.bytes)
  IN  IF h.err \/ hv.err \/ c.err \/ cv.err
        THEN [err |-> TRUE, token |-> NoJWT]
        ELSE [err |-> FALSE,
              token |-> [Header |-> hv.v, Claims |-> cv.v, Signature |-> signature]]

RECURSIVE Sum256(_)
\* sha256.Sum256, scaled down to a one-byte digest.
Sum256(s) ==
  IF Len(s) = 0 THEN 7
  ELSE (Sum256(SubSeq(s, 1, Len(s) - 1)) * 31 + s[Len(s)]) % 251

RECURSIVE ModExp(_, _, _)
ModExp(b, e, n) ==
  IF e = 0 THEN 1 % n
  ELSE LET h == ModExp(b, e \div 2, n)
       IN  (((h * h) % n) * (IF e % 2 = 1 THEN b ELSE 1)) % n

RECURSIVE ByteLen(_)
ByteLen(n) == IF n = 0 THEN 0 ELSE 1 + ByteLen(n \div 256)

\* rsa.VerifyPKCS1v15: the signature has the size of the modulus, is below
\* it, and raised to the public exponent gives the encoded digest.
VerifyPKCS1v15(key, hashed, sig) ==
  /\ key.N > 1
  /\ Len(sig) = ByteLen(key.N)
  /\ SetBytes(sig) < key.N
  /\ ModExp(SetBytes(sig), key.E, key.N) = hashed % key.N

\* verifySignature(signedString, signature, key): TRUE when it returns nil.
verifySignature(signedString, signature, key) ==
  LET sig == DecodeString(signature)
  IN  ~sig.err /\ VerifyPKCS1v15(key, Sum256(signedString), sig.bytes)

\* time.Time.Unix(): whole seconds.
Unix(t) == t \div TicksPerSec

HdrK1 == <<1, 0>>                  \* byte 4
HdrK2 == <<2, 0>>                  \* byte 8
HdrHS == <<3, 0>>                  \* byte 12
HdrNotJSON == <<0, 0>>             \* byte 0
ClaimsOK == <<0, 16, 4, 1, 0, 32>>      \* iss 1, aud 1, iat 1, exp 2
ClaimsExpFut == <<0, 16, 4, 2, 0, 16>>  \* iss 1, aud 1, iat 2, exp 1
ClaimsIss == <<0, 32, 8, 1, 0, 32>>     \* iss 2, aud 2, iat 1, exp 2
ClaimsAud == <<0, 16, 8, 1, 0, 32>>     \* iss 1, aud 2, iat 1, exp 2
SigOK == <<0, 48>>                 \* of HdrK1.ClaimsOK under k1
SigExpFut == <<23, 16>>            \* of HdrK1.ClaimsExpFut under k1
SigIss == <<44, 0>>                \* of HdrK1.ClaimsIss under k1
SigAud == <<5, 48>>                \* of HdrK1.ClaimsAud under k1
SigK2 == <<23, 16>>                \* of HdrK2.ClaimsOK under k2

Token(h, c, s) == h \o <<Dot>> \o c \o <<Dot>> \o s

TokOK == Token(HdrK1, ClaimsOK, SigOK)
TokBadSig == Token(HdrK1, ClaimsIss, <<1, 48>>)
TokMalSig == Token(HdrK1, ClaimsOK, <<0, BadChar>>)
TokExpFut == Token(HdrK1, ClaimsExpFut, SigExpFut)
TokIss == Token(HdrK1, ClaimsIss, SigIss)
TokAud == Token(HdrK1, ClaimsAud, SigAud)
TokK2 == Token(HdrK2, ClaimsOK, SigK2)
TokAlg == Token(HdrHS, ClaimsOK, <<1, 48>>)
TokNotJSON == Token(HdrNotJSON, ClaimsOK, SigOK)
TokBadB64 == Token(HdrK1, <<0>>, SigOK)
TokTwo == HdrK1 \o <<Dot>> \o ClaimsOK
TokFour == Token(HdrK1, ClaimsOK, SigOK) \o <<Dot>> \o SigOK
TokEmpty == <<>>
TokNoSig == Token(HdrK1, ClaimsOK, <<>>)
TokNoSigK2 == Token(HdrK2, ClaimsOK, <<>>)
TokSigHigh == Token(HdrK1, ClaimsOK, <<1, 48>>)  \* first character of SigOK changed
TokSigLow == Token(HdrK1, ClaimsOK, <<0, 49>>)   \* last character of SigOK changed

Tokens == {TokOK, TokBadSig, TokMalSig, TokExpFut, TokIss, TokAud, TokK2,
           TokAlg, TokNotJSON, TokBadB64, TokTwo, TokFour, TokEmpty, TokNoSig,
           TokNoSigK2, TokSigHigh, TokSigLow}

\* --------------------------------------------------------- ParseAndVerify
NoKey == [found |-> FALSE, key |-> [N |-> 0, E |-> 0]]

\* v.publicKeys[kid]: the key, or nil when the map (nil or not) has no kid.
LookupKey(m, kid) ==
  IF kid \in DOMAIN m THEN [found |-> TRUE, key |-> m[kid]] ELSE NoKey

\* Mutation: After in place of Before.
ExpiredAfter(deadline, t) == deadline > t

\* Mutation: stale from the deadline on.
ExpiredAtDeadline(deadline, t) == deadline <= t

\* v.keyExpire.Before(time.Now())
Expired(deadline, t) == deadline < t

\* Mutation: a token is still good in the second it expires.
TokenExpiredStrict(exp, t) == exp < t \div TicksPerSec

\* parsedToken.Claims.EXP <= time.Now().Unix()
TokenExpired(exp, t) == exp <= Unix(t)

\* Mutation: a token issued in the present second counts as issued in the
\* future.
IssuedInFutureOrNow(iat, t) == iat >= t \div TicksPerSec

\* parsedToken.Claims.IAT > time.Now().Unix()
IssuedInFuture(iat, t) == iat > Unix(t)

Rejected(err) == [err |-> err, isNil |-> TRUE, token |-> NoJWT]
Accepted(token) == [err |-> <<>>, isNil |-> FALSE, token |-> token]
NoResult == [err |-> <<>>, isNil |-> TRUE, token |-> NoJWT]

\* Mutation: only too few segments are malformed; more than three go on with
\* the first three.
EarlyChecksAtLeastThree(tokenString) ==
  LET parts == Split(tokenString)
  IN  IF Len(parts) < 3 THEN [err |-> <<"malformed token">>, token |-> NoJWT]
      ELSE LET p == parseJWT(parts[1], parts[2], parts[3])
           IN  IF p.err THEN [err |-> <<"decode token">>, token |-> NoJWT]
               ELSE IF p.token.Header.ALG # "RS256"
                 THEN [err |-> <<"expected alg RS256">>, token |-> p.token]
               ELSE [err |-> <<>>, token |-> p.token]

\* Mutation: an empty third segment is malformed.
EarlyChecksEmptySignature(tokenString) ==
  LET parts == Split(tokenString)
  IN  IF Len(parts) # 3 \/ parts[3] = <<>>
        THEN [err |-> <<"malformed token">>, token |-> NoJWT]
      ELSE LET p == parseJWT(parts[1], parts[2], parts[3])
           IN  IF p.err THEN [err |-> <<"decode token">>, token |-> NoJWT]
               ELSE IF p.token.Header.ALG # "RS256"
                 THEN [err |-> <<"expected alg RS256">>, token |-> p.token]
               ELSE [err |-> <<>>, token |-> p.token]

\* ParseAndVerify from its entry to the call of retrieveKey: the split,
\* parseJWT and the algorithm check.
EarlyChecks(tokenString) ==
  LET parts == Split(tokenString)
  IN  IF Len(parts) # 3 THEN [err |-> <<"malformed token">>, token |-> NoJWT]
      ELSE LET p == parseJWT(parts[1], parts[2], parts[3])
           IN  IF p.err THEN [err |-> <<"decode token">>, token |-> NoJWT]
               ELSE IF p.token.Header.ALG # "RS256"
                 THEN [err |-> <<"expected alg RS256">>, token |-> p.token]
               ELSE [err |-> <<>>, token |-> p.token]

\* Mutation: the expiry check comes before the issuer and audience checks.
LateChecksExpiryFirst(tokenString, key, t) ==
  LET parts == Split(tokenString)
      parsedToken == parseJWT(parts[1], parts[2], parts[3]).token
  IN  IF ~key.found THEN <<"matching key not found">>
      ELSE IF ~verifySignature(JoinDot(parts[1], parts[2]), parts[3], key.key)
        THEN <<"verify signature">>
      ELSE IF TokenExpired(parsedToken.Claims.EXP, t) THEN <<"token expired">>
      ELSE IF parsedToken.Claims.ISS # Issuer THEN <<"invalid issuer">>
      ELSE IF parsedToken.Claims.AUD # ClientID THEN <<"client ID does not match">>
      ELSE <<>>

\* Mutation: the audience is not checked.
LateChecksNoAudience(tokenString, key, t) ==
  LET parts == Split(tokenString)
      parsedToken == parseJWT(parts[1], parts[2], parts[3]).token
  IN  IF ~key.found THEN <<"matching key not found">>
      ELSE IF ~verifySignature(JoinDot(parts[1], parts[2]), parts[3], key.key)
        THEN <<"verify signature">>
      ELSE IF parsedToken.Claims.ISS # Issuer THEN <<"invalid issuer">>
      ELSE IF TokenExpired(parsedToken.Claims.EXP, t) THEN <<"token expired">>
      ELSE <<>>

\* Mutation: a nil key goes on to the signature check.
LateChecksNoNilCheck(tokenString, key, t) ==
  LET parts == Split(tokenString)
      parsedToken == parseJWT(parts[1], parts[2], parts[3]).token
  IN  IF ~verifySignature(JoinDot(parts[1], parts[2]), parts[3], key.key)
        THEN <<"verify signature">>
      ELSE IF parsedToken.Claims.ISS # Issuer THEN <<"invalid issuer">>
      ELSE IF parsedToken.Claims.AUD # ClientID THEN <<"client ID does not match">>
      ELSE IF TokenExpired(parsedToken.Claims.EXP, t) THEN <<"token expired">>
      ELSE <<>>

\* ParseAndVerify from the return of retrieveKey (without error) through the
\* expiry check, which reads the clock at t.
LateChecks(tokenString, key, t) ==
  LET parts == Split(tokenString)
      parsedToken == parseJWT(parts[1], parts[2], parts[3]).token
  IN  IF ~key.found THEN <<"matching key not found">>
      ELSE IF ~verifySignature(JoinDot(parts[1], parts[2]), parts[3], key.key)
        THEN <<"verify signature">>
      ELSE IF parsedToken.Claims.ISS # Issuer THEN <<"invalid issuer">>
      ELSE IF parsedToken.Claims.AUD # ClientID THEN <<"client ID does not match">>
      ELSE IF TokenExpired(parsedToken.Claims.EXP, t) THEN <<"token expired">>
      ELSE <<>>

\* Mutation: the last check returns the decoded token along with its error.
LastCheckKeepsToken(tokenString, t) ==
  LET parts == Split(tokenString)
      parsedToken == parseJWT(parts[1], parts[2], parts[3]).token
  IN  IF IssuedInFuture(parsedToken.Claims.IAT, t)
        THEN [err |-> <<"token issued for future time">>, isNil |-> FALSE,
              token |-> parsedToken]
        ELSE Accepted(parsedToken)

\* The last check of ParseAndVerify, which reads the clock again at t.
LastCheck(tokenString, t) ==
  LET parts == Split(tokenString)
      parsedToken == parseJWT(parts[1], parts[2], parts[3]).token
  IN  IF IssuedInFuture(parsedToken.Claims.IAT, t)
        THEN Rejected(<<"token issued for future time">>)
        ELSE Accepted(parsedToken)

\* ------------------------------------------------------- cache-control
\* A header value is a string, written as the sequence of its characters.
MaxAgeName == <<"m", "a", "x", "-", "a", "g", "e">>
CommaSpace == <<",", " ">>
Equals == <<"=">>

\* strings.HasPrefix(s, prefix)
HasPrefix(s, prefix) ==
  Len(s) >= Len(prefix) /\ SubSeq(s, 1, Len(prefix)) = prefix

\* sep occurs in s at position i.
OccursAt(s, sep, i) ==
  i + Len(sep) - 1 <= Len(s) /\ SubSeq(s, i, i + Len(sep) - 1) = sep

RECURSIVE SplitOn(_, _)
\* strings.Split(s, sep) for a non-empty sep: the pieces between the
\* occurrences of sep, taken from the left.
SplitOn(s, sep) ==
  IF \E i \in 1..Len(s) : OccursAt(s, sep, i)
    THEN LET i == CHOOSE j \in 1..Len(s) :
                    OccursAt(s, sep, j) /\ \A k \in 1..(j - 1) : ~OccursAt(s, sep, k)
         IN  <<SubSeq(s, 1, i - 1)>> \o SplitOn(SubSeq(s, i + Len(sep), Len(s)), sep)
    ELSE <<s>>

DigitValue ==
  [c \in {"0", "1", "2", "3", "4", "5", "6", "7", "8", "9"} |->
     CASE c = "0" -> 0 [] c = "1" -> 1 [] c = "2" -> 2 [] c = "3" -> 3 [] c = "4" -> 4
       [] c = "5" -> 5 [] c = "6" -> 6 [] c = "7" -> 7 [] c = "8" -> 8 [] c = "9" -> 9]

\* strconv.Atoi(s): an optional sign and one or more decimal digits.
Atoi(s) ==
  LET signed == Len(s) > 0 /\ s[1] \in {"+", "-"}
      digits == IF signed THEN Tail(s) ELSE s
      val[i \in 0..Len(digits)] ==
        IF i = 0 THEN 0 ELSE val[i - 1] * 10 + DigitValue[digits[i]]
  IN  IF Len(digits) = 0 \/ \E i \in 1..Len(digits) : digits[i] \notin DOMAIN DigitValue
        THEN [err |-> TRUE, v |-> 0]
        ELSE [err |-> FALSE,
              v |-> IF signed /\ s[1] = "-" THEN -val[Len(digits)] ELSE val[Len(digits)]]

\* What a call of extractMaxAge comes to: a panic, an error, or a value.
NoAge == [called |-> FALSE, panic |-> FALSE, err |-> <<>>, maxAge |-> 0]

\* extractMaxAge(cacheCtrlValue).  strings.Split(v, "=")[1] is an index out
\* of range, a run-time panic, when v has no "=".
extractMaxAge(cacheCtrlValue) ==
  LET cacheValues == SplitOn(cacheCtrlValue, CommaSpace)
      found == {i \in 1..Len(cacheValues) : HasPrefix(cacheValues[i], MaxAgeName)}
  IN  IF found = {}
        THEN [NoAge EXCEPT !.called = TRUE, !.err = <<"max-age not found">>]
        ELSE LET v == cacheValues[CHOOSE i \in found : \A j \in found : i <= j]
                 pieces == SplitOn(v, Equals)
             IN  IF Len(pieces) < 2
                   THEN [NoAge EXCEPT !.called = TRUE, !.panic = TRUE]
                 ELSE IF Atoi(pieces[2]).err
                   THEN [NoAge EXCEPT !.called = TRUE,
                                      !.err = <<"convert max-age value to number">>]
                 ELSE [NoAge EXCEPT !.called = TRUE, !.maxAge = Atoi(pieces[2]).v]

\* The cache-control values of the runs with the default fetch function.
HdrTest == <<"p", "u", "b">> \o CommaSpace \o MaxAgeName \o <<"=", "2">>
             \o CommaSpace \o <<"n", "t">>
HdrOnly == MaxAgeName \o <<"=", "1">>
HdrZero == MaxAgeName \o <<"=", "0">>
HdrNone == <<"n", "o", "-", "s", "t", "o", "r", "e">>
HdrEmpty == <<>>
HdrBare == MaxAgeName
HdrBareInList == <<"p", "u", "b">> \o CommaSpace \o MaxAgeName \o CommaSpace \o <<"n", "t">>
HdrWord == MaxAgeName \o <<"=", "x">>
HdrNoValue == MaxAgeName \o <<"=">>
HdrTwice == MaxAgeName \o <<"=", "1">> \o CommaSpace \o MaxAgeName \o <<"=", "2">>
HdrTwoEquals == MaxAgeName \o <<"=", "1", "=", "2">>
HdrLongerName == MaxAgeName \o <<"x", "=", "2">>
HdrNoSpace == <<"p", "u", "b", ",">> \o MaxAgeName \o <<"=", "1">>
HdrNegative == MaxAgeName \o <<"=", "-", "1">>

Headers == {HdrTest, HdrOnly, HdrZero, HdrNone, HdrEmpty, HdrBare, HdrBareInList,
            HdrWord, HdrNoValue, HdrTwice, HdrTwoEquals, HdrLongerName, HdrNoSpace,
            HdrNegative}

\* ------------------------------------------------------------------ state
VARIABLES
  now,          \* time.Now(), in ticks
  publicKeys,   \* keyCache.publicKeys
  keyExpire,    \* keyCache.keyExpire
  muWriter,     \* keyCache.mu: the thread inside Lock() .. Unlock(), if any
  muHeld,       \* keyCache.mu: that thread holds the lock exclusively
  muReaders,    \* keyCache.mu: the threads holding the lock shared
  built,        \* NewVerifier has returned
  fetches,      \* calls of keyFetcher so far
  installed,    \* history: the (map, deadline) of the last completed install
  th,           \* per thread: position and locals of its call
  env           \* the environment of the run: callers, inputs, horizon

vars == <<now, publicKeys, keyExpire, muWriter, muHeld, muReaders, built,
          fetches, installed, th, env>>

DocNone == [kind |-> "none", hasKeys |-> FALSE, keys |-> <<>>]
DocFetchErr == [kind |-> "fetcherr", hasKeys |-> FALSE, keys |-> <<>>]

NoPair == [keys |-> EmptyMap, expire |-> ZeroTime]

\* No earlier ParseAndVerify of the thread is on record.
NoLast == [any |-> FALSE, tok |-> <<>>, res |-> NoResult, expNow |-> 0, iatNow |-> 0,
           fetches |-> 0, keys |-> EmptyMap, expire |-> ZeroTime]

\* A thread outside any call.  tok, kid, m, expires, key are the locals
\* tokenString, kid, m, expiration and key of the code; op is the exported
\* function the thread is in; the rest is history of the call: doc the
\* response keyFetcher gave it, nfetch its calls of keyFetcher, chkNow,
\* expNow, iatNow the clock readings of the three time.Now() calls, before
\* the stored pair as the call found it when it found it stale, last the
\* thread's previous ParseAndVerify as it returned (kept when env.track),
\* hdr and age the cache-control value DefaultKeyFetcher was given and what
\* extractMaxAge made of it.
Idle == [pc |-> "idle", op |-> "none", tok |-> <<>>, kid |-> "", doc |-> DocNone,
         m |-> EmptyMap, expires |-> ZeroTime, key |-> NoKey, res |-> NoResult,
         nfetch |-> 0, chkNow |-> 0, expNow |-> 0, iatNow |-> 0,
         before |-> NoPair, last |-> NoLast, hdr |-> <<>>, age |-> NoAge]

\* newKeyCache builds the cache with a nil map and the zero time and calls
\* retrieveKey(""); NewVerifier is run by MainThread.
Start(e) ==
  /\ env = e
  /\ now = StartTime
  /\ publicKeys = EmptyMap
  /\ keyExpire = ZeroTime
  /\ muWriter = NoThread
  /\ muHeld = FALSE
  /\ muReaders = {}
  /\ built = FALSE
  /\ fetches = 0
  /\ installed = [keys |-> EmptyMap, expire |-> ZeroTime, any |-> FALSE]
  /\ th = [t \in Threads |->
             IF t = MainThread THEN [Idle EXCEPT !.pc = "rlock", !.op = "new"]
             ELSE Idle]

\* One caller at a time, every token and every document.
Init ==
  Start([callers |-> {MainThread}, tokens |-> Tokens, docs |-> Docs,
         maxTime |-> MaxTime, maxFetch |-> MaxFetch, track |-> FALSE, ttls |-> {0, MaxTTL}])

\* The tokens and documents of the concurrent runs.
ConcTokens == {TokOK, TokK2}
ConcDocs == {DocK1, DocK2, DocMissing}

\* Every thread calls, with few tokens and documents.
ConcInit ==
  Start([callers |-> Threads, tokens |-> ConcTokens, docs |-> ConcDocs,
         maxTime |-> ConcMaxTime, maxFetch |-> ConcMaxFetch, track |-> FALSE, ttls |-> {0, MaxTTL}])

\* The tokens and documents of the runs that compare a call with the one
\* before it.
TwiceTokens == {TokOK, TokK2, TokIss, TokNoSig, TokAlg, TokNotJSON, TokTwo}
TwiceDocs == {DocK1, DocK1K2, DocGarbage}

\* One caller at a time, each ParseAndVerify kept on record for the next.
TwiceInit ==
  Start([callers |-> {MainThread}, tokens |-> TwiceTokens, docs |-> TwiceDocs,
         maxTime |-> MaxTime, maxFetch |-> TwiceMaxFetch, track |-> TRUE, ttls |-> {0, MaxTTL}])

\* The tokens and documents of the runs under fair scheduling.
LiveTokens == {TokOK}
LiveDocs == {DocK1, DocMissing}

\* Every thread calls, with one token and two documents.
LiveInit ==
  Start([callers |-> Threads, tokens |-> LiveTokens, docs |-> LiveDocs,
         maxTime |-> ConcMaxTime, maxFetch |-> ConcMaxFetch, track |-> FALSE, ttls |-> {0, MaxTTL}])

\* Every thread calls, and the fetch function gives each response the same
\* lifetime: the later it is called, the later the deadline it returns.
MonoInit ==
  Start([callers |-> Threads, tokens |-> ConcTokens, docs |-> ConcDocs,
         maxTime |-> ConcMaxTime, maxFetch |-> ConcMaxFetch, track |-> FALSE,
         ttls |-> {MaxTTL}])

\* The tokens and documents of the runs with the default fetch function.
DefaultTokens == {TokOK, TokK2}
DefaultDocs == {DocK1, DocGarbage}

\* One caller at a time, the fetch function being DefaultKeyFetcher.
DefaultInit ==
  Start([callers |-> {MainThread}, tokens |-> DefaultTokens, docs |-> DefaultDocs,
         maxTime |-> MaxTime, maxFetch |-> MaxFetch, track |-> FALSE,
         ttls |-> {0, MaxTTL}, headers |-> Headers])

\* The deadlines keyFetcher may return when called at t.
Deadlines(t) == {t + d : d \in env.ttls}

Tick ==
  /\ now < env.maxTime
  /\ now' = now + 1
  /\ UNCHANGED <<publicKeys, keyExpire, muWriter, muHeld, muReaders, built,
                 fetches, installed, th, env>>

\* ParseAndVerify is called with some token and runs up to retrieveKey.
Begin(t) ==
  /\ built
  /\ t \in env.callers
  /\ th[t].pc = "idle"
  /\ \E tokenString \in env.tokens :
       LET e == EarlyChecks(tokenString)
           r == [Idle EXCEPT !.op = "verify", !.tok = tokenString,
                             !.last = th[t].last]
       IN  th' = [th EXCEPT ![t] =
                    IF e.err # <<>>
                      THEN [r EXCEPT !.pc = "done", !.res = Rejected(e.err)]
                      ELSE [r EXCEPT !.pc = "rlock", !.kid = e.token.Header.KID]]
  /\ UNCHANGED <<now, publicKeys, keyExpire, muWriter, muHeld, muReaders, built,
                 fetches, installed, env>>

\* Mutation: on a refresh error ParseAndVerify falls back to the stored map.
ReturnedFallsBack(r, key, err) ==
  IF r.op = "new" THEN [r EXCEPT !.pc = "done", !.res = [NoResult EXCEPT !.err = err]]
  ELSE [r EXCEPT !.pc = "verify",
                 !.key = IF err # <<>> THEN LookupKey(publicKeys, r.kid) ELSE key]

\* Mutation: newKeyCache drops the error of its first lookup.
ReturnedDropsNewError(r, key, err) ==
  IF r.op = "new" THEN [r EXCEPT !.pc = "done", !.res = NoResult]
  ELSE IF err # <<>>
    THEN [r EXCEPT !.pc = "done", !.res = Rejected(<<"retrieve key">> \o err)]
  ELSE [r EXCEPT !.pc = "verify", !.key = key]

\* retrieveKey returns (key, err) to its caller: newKeyCache and NewVerifier
\* pass err on; ParseAndVerify rejects on err and goes on otherwise.
Returned(r, key, err) ==
  IF r.op = "new" THEN [r EXCEPT !.pc = "done", !.res = [NoResult EXCEPT !.err = err]]
  ELSE IF err # <<>>
    THEN [r EXCEPT !.pc = "done", !.res = Rejected(<<"retrieve key">> \o err)]
  ELSE [r EXCEPT !.pc = "verify", !.key = key]

\* Mutation: the lock is a plain mutex, one reader at a time.
RLockExclusive(t) ==
  /\ th[t].pc = "rlock"
  /\ muWriter = NoThread
  /\ muReaders = {}
  /\ muReaders' = muReaders \cup {t}
  /\ th' = [th EXCEPT ![t].chkNow = now,
                      ![t].before = IF Expired(keyExpire, now)
                                      THEN [keys |-> publicKeys, expire |-> keyExpire]
                                      ELSE NoPair,
                      ![t].pc = IF Expired(keyExpire, now) THEN "stale" ELSE "fresh"]
  /\ UNCHANGED <<now, publicKeys, keyExpire, muWriter, muHeld, built, fetches,
                 installed, env>>

\* retrieveKey: v.mu.RLock() and the test of the deadline.  RLock waits
\* while a writer is inside Lock().
RLock(t) ==
  /\ th[t].pc = "rlock"
  /\ muWriter = NoThread
  /\ muReaders' = muReaders \cup {t}
  /\ th' = [th EXCEPT ![t].chkNow = now,
                      ![t].before = IF Expired(keyExpire, now)
                                      THEN [keys |-> publicKeys, expire |-> keyExpire]
                                      ELSE NoPair,
                      ![t].pc = IF Expired(keyExpire, now) THEN "stale" ELSE "fresh"]
  /\ UNCHANGED <<now, publicKeys, keyExpire, muWriter, muHeld, built, fetches,
                 installed, env>>

\* Mutation: the shared lock is kept over the fetch.
RUnlockStaleKeeps(t) ==
  /\ th[t].pc = "stale"
  /\ th' = [th EXCEPT ![t].pc = "fetch", ![t].chkNow = 0]
  /\ UNCHANGED <<now, publicKeys, keyExpire, muWriter, muHeld, muReaders, built,
                 fetches, installed, env>>

\* retrieveKey, stale branch: v.mu.RUnlock() before the fetch.
RUnlockStale(t) ==
  /\ th[t].pc = "stale"
  /\ muReaders' = muReaders \ {t}
  /\ th' = [th EXCEPT ![t].pc = "fetch", ![t].chkNow = 0]
  /\ UNCHANGED <<now, publicKeys, keyExpire, muWriter, muHeld, built, fetches,
                 installed, env>>

\* Mutation: a failed fetch is tried again within the call.
KeyFetchRetries(t) ==
  /\ th[t].pc = "fetch"
  /\ fetches < env.maxFetch
  /\ fetches' = fetches + 1
  /\ LET r == [th[t] EXCEPT !.nfetch = @ + 1]
     IN  \/ th' = [th EXCEPT ![t] = [r EXCEPT !.doc = DocFetchErr]]
         \/ \E doc \in env.docs, expires \in Deadlines(now) :
              LET b == BuildKeyMap(doc)
              IN  th' = [th EXCEPT ![t] =
                           IF b.err # <<>>
                             THEN Returned([r EXCEPT !.doc = doc], NoKey,
                                           <<"update key cache">> \o b.err)
                             ELSE [r EXCEPT !.doc = doc, !.m = b.m, !.before = NoPair,
                                            !.expires = expires, !.pc = "lock"]]
  /\ UNCHANGED <<now, publicKeys, keyExpire, muWriter, muHeld, muReaders, built,
                 installed, env>>

\* retrieveKey, stale branch: v.keyFetcher() and the part of UpdatePublicKey
\* before the lock.  keyFetcher fails, or returns some document and deadline.
KeyFetch(t) ==
  /\ th[t].pc = "fetch"
  /\ fetches < env.maxFetch
  /\ fetches' = fetches + 1
  /\ LET r == [th[t] EXCEPT !.nfetch = @ + 1]
     IN  \/ th' = [th EXCEPT ![t] =
                     Returned([r EXCEPT !.doc = DocFetchErr], NoKey, <<"fetch key">>)]
         \/ \E doc \in env.docs, expires \in Deadlines(now) :
              LET b == BuildKeyMap(doc)
              IN  th' = [th EXCEPT ![t] =
                           IF b.err # <<>>
                             THEN Returned([r EXCEPT !.doc = doc], NoKey,
                                           <<"update key cache">> \o b.err)
                             ELSE [r EXCEPT !.doc = doc, !.m = b.m, !.before = NoPair,
                                            !.expires = expires, !.pc = "lock"]]
  /\ UNCHANGED <<now, publicKeys, keyExpire, muWriter, muHeld, muReaders, built,
                 installed, env>>

\* retrieveKey, stale branch, with DefaultKeyFetcher as the fetch function:
\* the request fails, or a response comes with some cache-control value and
\* some body; extractMaxAge panics, fails, or gives the lifetime in seconds.
\* A panic is not recovered anywhere: the program ends.
DefaultKeyFetch(t) ==
  /\ th[t].pc = "fetch"
  /\ fetches < env.maxFetch
  /\ fetches' = fetches + 1
  /\ LET r == [th[t] EXCEPT !.nfetch = @ + 1]
     IN  \/ th' = [th EXCEPT ![t] =
                     Returned([r EXCEPT !.doc = DocFetchErr], NoKey, <<"fetch key">>)]
         \/ \E hdr \in env.headers, doc \in env.docs :
              LET age == extractMaxAge(hdr)
                  q == [r EXCEPT !.hdr = hdr, !.age = age]
                  b == BuildKeyMap(doc)
              IN  th' = [th EXCEPT ![t] =
                           IF age.panic THEN [q EXCEPT !.pc = "panic"]
                           ELSE IF age.err # <<>>
                             THEN Returned([q EXCEPT !.doc = DocFetchErr], NoKey,
                                           <<"fetch key">>)
                           ELSE IF b.err # <<>>
                             THEN Returned([q EXCEPT !.doc = doc], NoKey,
                                           <<"update key cache">> \o b.err)
                           ELSE [q EXCEPT !.doc = doc, !.m = b.m, !.before = NoPair,
                                          !.expires = now + age.maxAge * TicksPerSec,
                                          !.pc = "lock"]]
  /\ UNCHANGED <<now, publicKeys, keyExpire, muWriter, muHeld, muReaders, built,
                 installed, env>>

\* Mutation: Lock() lets a second writer in.
LockTwoWriters(t) ==
  /\ th[t].pc = "lock"
  /\ muWriter' = t
  /\ muHeld' = (muReaders = {})
  /\ th' = [th EXCEPT ![t].pc = IF muReaders = {} THEN "setkeys" ELSE "lockwait"]
  /\ UNCHANGED <<now, publicKeys, keyExpire, muReaders, built, fetches, installed, env>>

\* Mutation: Lock() does not wait for the readers to leave.
LockNoWait(t) ==
  /\ th[t].pc = "lock"
  /\ muWriter = NoThread
  /\ muWriter' = t
  /\ muHeld' = TRUE
  /\ th' = [th EXCEPT ![t].pc = "setkeys"]
  /\ UNCHANGED <<now, publicKeys, keyExpire, muReaders, built, fetches, installed, env>>

\* UpdatePublicKey: v.mu.Lock().  One writer at a time gets in; it holds the
\* lock at once when no reader holds it and waits for the readers otherwise.
Lock(t) ==
  /\ th[t].pc = "lock"
  /\ muWriter = NoThread
  /\ muWriter' = t
  /\ muHeld' = (muReaders = {})
  /\ th' = [th EXCEPT ![t].pc = IF muReaders = {} THEN "setkeys" ELSE "lockwait"]
  /\ UNCHANGED <<now, publicKeys, keyExpire, muReaders, built, fetches, installed, env>>

\* v.mu.Lock() returns once the last reader has left.
LockAcquire(t) ==
  /\ th[t].pc = "lockwait"
  /\ muReaders = {}
  /\ muHeld' = TRUE
  /\ th' = [th EXCEPT ![t].pc = "setkeys"]
  /\ UNCHANGED <<now, publicKeys, keyExpire, muWriter, muReaders, built, fetches,
                 installed, env>>

\* v.publicKeys = m
SetKeys(t) ==
  /\ th[t].pc = "setkeys"
  /\ publicKeys' = th[t].m
  /\ th' = [th EXCEPT ![t].pc = "setexpire"]
  /\ UNCHANGED <<now, keyExpire, muWriter, muHeld, muReaders, built, fetches,
                 installed, env>>

\* v.keyExpire = expiration
SetExpire(t) ==
  /\ th[t].pc = "setexpire"
  /\ keyExpire' = th[t].expires
  /\ th' = [th EXCEPT ![t].pc = "unlock"]
  /\ UNCHANGED <<now, publicKeys, muWriter, muHeld, muReaders, built, fetches,
                 installed, env>>

\* Mutation: UpdatePublicKey returns without v.mu.Unlock().
UnlockKeepsLock(t) ==
  /\ th[t].pc = "unlock"
  /\ installed' = [keys |-> th[t].m, expire |-> th[t].expires, any |-> TRUE]
  /\ th' = [th EXCEPT ![t].pc = "rlock2"]
  /\ UNCHANGED <<now, publicKeys, keyExpire, muWriter, muHeld, muReaders, built,
                 fetches, env>>

\* v.mu.Unlock(); UpdatePublicKey returns nil.
Unlock(t) ==
  /\ th[t].pc = "unlock"
  /\ muWriter' = IF muWriter = t THEN NoThread ELSE muWriter
  /\ muHeld' = IF muWriter = t THEN FALSE ELSE muHeld
  /\ installed' = [keys |-> th[t].m, expire |-> th[t].expires, any |-> TRUE]
  /\ th' = [th EXCEPT ![t].pc = "rlock2"]
  /\ UNCHANGED <<now, publicKeys, keyExpire, muReaders, built, fetches, env>>

\* retrieveKey, stale branch: v.mu.RLock() after the install.
RLock2(t) ==
  /\ th[t].pc = "rlock2"
  /\ muWriter = NoThread
  /\ muReaders' = muReaders \cup {t}
  /\ th' = [th EXCEPT ![t].pc = "read"]
  /\ UNCHANGED <<now, publicKeys, keyExpire, muWriter, muHeld, built, fetches,
                 installed, env>>

\* Mutation: the lookup returns a missing key without v.mu.RUnlock().
ReadKeyLeaksOnMiss(t) ==
  /\ th[t].pc \in {"fresh", "read"}
  /\ muReaders' = IF th[t].kid \in DOMAIN publicKeys THEN muReaders \ {t} ELSE muReaders
  /\ LET r == IF th[t].op = "verify"
                THEN [th[t] EXCEPT !.doc = DocNone, !.m = EmptyMap,
                                   !.expires = ZeroTime, !.chkNow = 0]
                ELSE th[t]
     IN  th' = [th EXCEPT ![t] = Returned(r, LookupKey(publicKeys, th[t].kid), <<>>)]
  /\ UNCHANGED <<now, publicKeys, keyExpire, muWriter, muHeld, built, fetches,
                 installed, env>>

\* Mutation: a lookup that is served from the cache extends its life.
ReadKeyExtendsLife(t) ==
  /\ th[t].pc \in {"fresh", "read"}
  /\ muReaders' = muReaders \ {t}
  /\ keyExpire' = now + MaxTTL
  /\ LET r == IF th[t].op = "verify"
                THEN [th[t] EXCEPT !.doc = DocNone, !.m = EmptyMap,
                                   !.expires = ZeroTime, !.chkNow = 0]
                ELSE th[t]
     IN  th' = [th EXCEPT ![t] = Returned(r, LookupKey(publicKeys, th[t].kid), <<>>)]
  /\ UNCHANGED <<now, publicKeys, muWriter, muHeld, built, fetches, installed, env>>

\* retrieveKey: k := v.publicKeys[kid]; v.mu.RUnlock(); return k, nil.
ReadKey(t) ==
  /\ th[t].pc \in {"fresh", "read"}
  /\ muReaders' = muReaders \ {t}
  /\ LET r == IF th[t].op = "verify"
                THEN [th[t] EXCEPT !.doc = DocNone, !.m = EmptyMap,
                                   !.expires = ZeroTime, !.chkNow = 0]
                ELSE th[t]
     IN  th' = [th EXCEPT ![t] = Returned(r, LookupKey(publicKeys, th[t].kid), <<>>)]
  /\ UNCHANGED <<now, publicKeys, keyExpire, muWriter, muHeld, built, fetches,
                 installed, env>>

\* ParseAndVerify: the key, signature, issuer, audience and expiry checks.
VerifyClaims(t) ==
  /\ th[t].pc = "verify"
  /\ LET err == LateChecks(th[t].tok, th[t].key, now)
     IN  th' = [th EXCEPT ![t] =
                  IF err # <<>>
                    THEN [@ EXCEPT !.pc = "done", !.res = Rejected(err),
                                   !.expNow = IF err = <<"token expired">> THEN now ELSE 0]
                    ELSE [@ EXCEPT !.pc = "iat", !.expNow = now]]
  /\ UNCHANGED <<now, publicKeys, keyExpire, muWriter, muHeld, muReaders, built,
                 fetches, installed, env>>

\* ParseAndVerify: the issued-at check and the successful return.
CheckIAT(t) ==
  /\ th[t].pc = "iat"
  /\ th' = [th EXCEPT ![t].pc = "done", ![t].iatNow = now,
                      ![t].res = LastCheck(th[t].tok, now)]
  /\ UNCHANGED <<now, publicKeys, keyExpire, muWriter, muHeld, muReaders, built,
                 fetches, installed, env>>

\* The call returns to its caller; NewVerifier hands out the Verifier (with
\* or without an error).
Return(t) ==
  /\ th[t].pc = "done"
  /\ built' = TRUE
  /\ th' = [th EXCEPT ![t] =
               [Idle EXCEPT !.last =
                  IF env.track /\ th[t].op = "verify"
                    THEN [any |-> TRUE, tok |-> th[t].tok, res |-> th[t].res,
                          expNow |-> th[t].expNow, iatNow |-> th[t].iatNow,
                          fetches |-> fetches, keys |-> publicKeys,
                          expire |-> keyExpire]
                    ELSE th[t].last]]
  /\ UNCHANGED <<now, publicKeys, keyExpire, muWriter, muHeld, muReaders,
                 fetches, installed, env>>

\* One step of a thread, whatever the other threads do.
Call(t) ==
  \/ Begin(t)
  \/ RLock(t)
  \/ RUnlockStale(t)
  \/ KeyFetch(t)
  \/ Lock(t)
  \/ SetKeys(t)
  \/ SetExpire(t)
  \/ Unlock(t)
  \/ RLock2(t)
  \/ ReadKey(t)
  \/ VerifyClaims(t)
  \/ CheckIAT(t)
  \/ Return(t)

\* One step of a thread of a program that uses DefaultKeyFetcher.
DefaultCall(t) ==
  \/ Begin(t)
  \/ RLock(t)
  \/ RUnlockStale(t)
  \/ DefaultKeyFetch(t)
  \/ Lock(t)
  \/ SetKeys(t)
  \/ SetExpire(t)
  \/ Unlock(t)
  \/ RLock2(t)
  \/ ReadKey(t)
  \/ VerifyClaims(t)
  \/ CheckIAT(t)
  \/ Return(t)

\* A single caller never waits inside Lock().
Next == Tick \/ Call(MainThread)

ConcNext == Tick \/ \E t \in Threads : Call(t) \/ LockAcquire(t)

Spec == Init /\ [][Next]_vars

ConcSpec == ConcInit /\ [][ConcNext]_vars

TwiceSpec == TwiceInit /\ [][Next]_vars

\* The steps of a thread inside retrieveKey and UpdatePublicKey, the fetch
\* function apart: it is supplied, and may take any time.
Progress(t) ==
  \/ RLock(t)
  \/ RUnlockStale(t)
  \/ Lock(t)
  \/ LockAcquire(t)
  \/ SetKeys(t)
  \/ SetExpire(t)
  \/ Unlock(t)
  \/ RLock2(t)
  \/ ReadKey(t)

\* The threads are goroutines, which the scheduler runs fairly: a thread
\* whose next step of the lookup stays possible takes it.  Nothing is
\* assumed of the clock, of the callers or of the fetch function.
DefaultNext == Tick \/ DefaultCall(MainThread)

DefaultSpec == DefaultInit /\ [][DefaultNext]_vars

MonoSpec == MonoInit /\ [][ConcNext]_vars

LiveSpec == LiveInit /\ [][ConcNext]_vars /\ \A t \in Threads : WF_vars(Progress(t))

\* ----------------------------------------------------------------- claims
\* What the claims speak of, stated apart from the code above.
NumDots(s) == Cardinality({i \in 1..Len(s) : s[i] = Dot})

WholeSeconds(t) == t \div TicksPerSec

Base64URL(s) == Len(s) % 4 # 1 /\ \A i \in 1..Len(s) : s[i] \in 0..63

\* A document no refresh may install: unparseable, without a key list, with
\* an empty one, or with an entry that is incomplete or not base64url.
BadDoc(doc) ==
  \/ doc.kind # "object"
  \/ ~doc.hasKeys
  \/ Len(doc.keys) = 0
  \/ \E i \in 1..Len(doc.keys) :
       LET v == doc.keys[i]
       IN  v.kid = "" \/ v.n = <<>> \/ v.e = <<>> \/ ~Base64URL(v.n) \/ ~Base64URL(v.e)

\* The refresh attempt of the call r failed: its fetch returned an error or
\* a document that cannot be installed.
RefreshFailed(r) == r.doc.kind # "none" /\ (r.doc.kind = "fetcherr" \/ BadDoc(r.doc))

\* The header and claims a token with two dots carries.
Embedded(r) == parseJWT(Split(r.tok)[1], Split(r.tok)[2], Split(r.tok)[3])

Decodes(r) == NumDots(r.tok) = 2 /\ ~Embedded(r).err

SignedBy(r, key) ==
  verifySignature(Split(r.tok)[1] \o <<Dot>> \o Split(r.tok)[2], Split(r.tok)[3], key)

\* The call r is a finished ParseAndVerify.
Verified(r) == r.op = "verify" /\ r.pc = "done"

\* Check i of the ten checks fails for the finished call r (a time check
\* that was never made does not fail).
Fails(r, i) ==
  CASE i = 1 -> NumDots(r.tok) # 2
    [] i = 2 -> NumDots(r.tok) = 2 /\ Embedded(r).err
    [] i = 3 -> Decodes(r) /\ Embedded(r).token.Header.ALG # "RS256"
    [] i = 4 -> RefreshFailed(r)
    [] i = 5 -> Decodes(r) /\ Embedded(r).token.Header.KID \notin DOMAIN publicKeys
    [] i = 6 -> /\ Decodes(r)
                /\ Embedded(r).token.Header.KID \in DOMAIN publicKeys
                /\ ~SignedBy(r, publicKeys[Embedded(r).token.Header.KID])
    [] i = 7 -> Decodes(r) /\ Embedded(r).token.Claims.ISS # "https://accounts.google.com"
    [] i = 8 -> Decodes(r) /\ Embedded(r).token.Claims.AUD # ClientID
    [] i = 9 -> /\ Decodes(r) /\ r.expNow > 0
                /\ Embedded(r).token.Claims.EXP <= WholeSeconds(r.expNow)
    [] OTHER -> /\ Decodes(r) /\ r.iatNow > 0
                /\ Embedded(r).token.Claims.IAT > WholeSeconds(r.iatNow)

Reasons == <<"malformed token", "decode token", "expected alg RS256", "retrieve key",
             "matching key not found", "verify signature", "invalid issuer",
             "client ID does not match", "token expired",
             "token issued for future time">>

FirstFail(r) ==
  IF \E i \in 1..10 : Fails(r, i)
    THEN CHOOSE i \in 1..10 : Fails(r, i) /\ \A j \in 1..(i - 1) : ~Fails(r, j)
    ELSE 0

\* C1: a finished ParseAndVerify reports the first failing check of the fixed
\* order (segments, decode, algorithm, refresh error, key not found,
\* signature, issuer, audience, expiry, issued-at) and has made no later
\* check: no fetch and no lookup before the algorithm check passed, no clock
\* reading for a check that was not reached.
C1_FirstFailureReported ==
  \A t \in Threads :
    LET r == th[t]
        f == FirstFail(r)
    IN  Verified(r) =>
          /\ (f = 0) = (r.res.err = <<>>)
          /\ f > 0 => r.res.err # <<>> /\ r.res.err[1] = Reasons[f]
          /\ f \in 1..3 => r.nfetch = 0 /\ r.doc = DocNone
          /\ f \in 1..5 => r.key = NoKey
          /\ f \in 1..8 => r.expNow = 0
          /\ f \in 1..9 => r.iatNow = 0

\* A token that is expired and issued in the future was rejected as expired.
C1_Witness ==
  \E t \in Threads :
    /\ Verified(th[t])
    /\ th[t].res.err = <<"token expired">>
    /\ Embedded(th[t]).token.Claims.IAT > WholeSeconds(th[t].expNow)

\* The time of a clock reading, or the present time if it was not made.
ReadAt(x) == IF x > 0 THEN x ELSE now

C3_PairReadAndWrittenUnderLock ==
  /\ \A t \in Threads :
       th[t].pc \in {"setkeys", "setexpire", "unlock"} =>
         muHeld /\ muWriter = t /\ muReaders = {}
  /\ \A t \in Threads :
       th[t].pc \in {"stale", "fresh", "read"} => t \in muReaders /\ ~muHeld
  /\ muReaders # {} =>
       publicKeys = installed.keys /\ keyExpire = installed.expire

\* A refresher waits inside Lock() for a reader that reads the pair a
\* completed install has left.
C3_Witness ==
  \E t, u \in Threads :
    /\ th[t].pc = "lockwait"
    /\ u \in muReaders
    /\ installed.any
    /\ th[t].m # publicKeys

\* C4: a call whose refresh attempt failed (fetch error, unparseable
\* document, absent or empty key list, incomplete entry, bad base64url) has
\* returned the error without entering the install, and the stored map and
\* deadline are the ones the call found.
C4_FailedRefreshChangesNothing ==
  \A t \in Threads :
    LET r == th[t]
    IN  RefreshFailed(r) =>
          /\ r.pc = "done"
          /\ r.res.err # <<>>
          /\ publicKeys = r.before.keys
          /\ keyExpire = r.before.expire

\* A document whose first entry is well formed and whose second is not was
\* refused while an earlier key set was stored.
C4_Witness ==
  \E t \in Threads :
    /\ th[t].pc = "done"
    /\ th[t].doc = DocMissing
    /\ installed.any
    /\ publicKeys = th[t].before.keys
    /\ publicKeys # EmptyMap

\* C5: once a refresh has installed a map, the stored map has at least one
\* entry, and so has every map on its way into the store.
C5_NoEmptyKeySet ==
  /\ installed.any => Cardinality(DOMAIN publicKeys) >= 1
  /\ \A t \in Threads :
       th[t].pc \in {"lock", "lockwait", "setkeys", "setexpire", "unlock"} =>
         Cardinality(DOMAIN th[t].m) >= 1

\* A document with zero entries was served after a successful refresh.
C5_Witness ==
  \E t \in Threads :
    /\ installed.any
    /\ th[t].pc = "done"
    /\ th[t].doc \in {DocEmpty, DocNoKeys, DocNull}

\* C6 as claimed: a lookup goes to the fetch exactly when the time it read is
\* at or past the stored deadline.
C6_FetchIffAtOrPastDeadline ==
  \A t \in Threads :
    th[t].pc \in {"stale", "fresh"} =>
      ((th[t].pc = "stale") = (th[t].chkNow >= keyExpire))

\* C6 amended: a lookup goes to the fetch exactly when the time it read is
\* strictly past the stored deadline; at the deadline itself, and before it,
\* it reads the stored map without a fetch.
C6_FetchIffPastDeadline ==
  \A t \in Threads :
    /\ th[t].pc \in {"stale", "fresh"} =>
         ((th[t].pc = "stale") = (th[t].chkNow > keyExpire))
    /\ th[t].pc = "fresh" => th[t].nfetch = 0
    /\ th[t].pc = "fetch" => th[t].nfetch = 0
    /\ th[t].pc \in {"lock", "lockwait", "setkeys", "setexpire", "unlock",
                     "rlock2", "read"} => th[t].nfetch = 1

\* A lookup made at the very tick of the deadline goes on without a fetch.
C6_Witness ==
  \E t \in Threads :
    /\ th[t].pc = "fresh"
    /\ th[t].chkNow = keyExpire
    /\ th[t].op = "verify"

\* C7: a ParseAndVerify whose refresh attempt failed has got no key and is
\* rejected with the key-resolution failure, never with key-not-found and
\* never accepted, whatever the stored map holds.
C7_RefreshErrorAbortsLookup ==
  \A t \in Threads :
    LET r == th[t]
    IN  r.op = "verify" /\ RefreshFailed(r) =>
          /\ r.pc = "done"
          /\ r.key = NoKey
          /\ r.res.isNil
          /\ Len(r.res.err) >= 2
          /\ r.res.err[1] = "retrieve key"
          /\ r.res.err[2] \in {"fetch key", "update key cache"}

\* The refresh failed for a properly signed token whose key is in the stored
\* map.
C7_Witness ==
  \E t \in Threads :
    /\ Verified(th[t])
    /\ RefreshFailed(th[t])
    /\ th[t].tok = TokOK
    /\ th[t].kid \in DOMAIN publicKeys

\* C8: a lookup that returns without error returns the stored key of the
\* identifier, and no key when the stored map has none; ParseAndVerify then
\* rejects with key-not-found, which is not the rejection of a refresh error.
C8_AbsentKeyIsNotFound ==
  \A t \in Threads :
    LET r == th[t]
    IN  /\ r.op = "verify" /\ r.pc = "verify" =>
             /\ r.key.found = (r.kid \in DOMAIN publicKeys)
             /\ r.key.found => r.key.key = publicKeys[r.kid]
             /\ ~r.key.found => r.key = NoKey
        /\ ( /\ Verified(r)
             /\ Decodes(r)
             /\ Embedded(r).token.Header.ALG = "RS256"
             /\ ~RefreshFailed(r)
             /\ Embedded(r).token.Header.KID \notin DOMAIN publicKeys )
           => r.res = [err |-> <<"matching key not found">>, isNil |-> TRUE,
                       token |-> NoJWT]

\* A refresh succeeded and the identifier is not in the map it installed.
C8_Witness ==
  \E t \in Threads :
    /\ Verified(th[t])
    /\ th[t].nfetch = 1
    /\ th[t].res.err = <<"matching key not found">>
    /\ publicKeys # EmptyMap

KidsOf(doc) == {doc.keys[i].kid : i \in 1..Len(doc.keys)}

\* C9: NewVerifier never finds the cache fresh and has called the fetch
\* function exactly once when it returns; it returns an error exactly when
\* that fetch or the decoding of its document failed, and otherwise the
\* cache holds the key set and the deadline of that fetch.
C9_ConstructionFetchesOnce ==
  \A t \in Threads :
    LET r == th[t]
    IN  r.op = "new" =>
          /\ r.pc # "fresh"
          /\ r.pc = "done" =>
               /\ r.nfetch = 1
               /\ fetches = 1
               /\ (r.res.err # <<>>) = RefreshFailed(r)
               /\ r.res.err = <<>> =>
                    /\ publicKeys = r.m
                    /\ DOMAIN publicKeys = KidsOf(r.doc)
                    /\ keyExpire = r.expires
                    /\ r.expires >= r.chkNow

C9_Witness ==
  \E t \in Threads :
    /\ th[t].op = "new"
    /\ th[t].pc = "done"
    /\ th[t].res.err = <<>>
    /\ Cardinality(DOMAIN publicKeys) = 2

\* The finished call r passed every check before the expiry check.
ReachedExpiryCheck(r) ==
  /\ Verified(r)
  /\ Decodes(r)
  /\ \A i \in 3..8 : ~Fails(r, i)

\* C10: a token that passed the earlier checks is rejected as expired
\* exactly when its expiry is not greater than the whole seconds of the
\* clock reading.
C10_ExpiredIffNotAfterNow ==
  \A t \in Threads :
    LET r == th[t]
    IN  ReachedExpiryCheck(r) =>
          /\ r.expNow > 0
          /\ (r.res.err = <<"token expired">>) =
               (Embedded(r).token.Claims.EXP <= r.expNow \div TicksPerSec)

\* A token was rejected in the very second of its expiry.
C10_Witness ==
  \E t \in Threads :
    /\ ReachedExpiryCheck(th[t])
    /\ th[t].res.err = <<"token expired">>
    /\ Embedded(th[t]).token.Claims.EXP = th[t].expNow \div TicksPerSec

\* The finished call r passed every check before the issued-at check.
ReachedIssuedAtCheck(r) == ReachedExpiryCheck(r) /\ ~Fails(r, 9)

\* C11: a token that passed the earlier checks is rejected as issued in the
\* future exactly when its issued-at is greater than the whole seconds of the
\* clock reading, and is accepted otherwise.
C11_NotYetValidIffAfterNow ==
  \A t \in Threads :
    LET r == th[t]
    IN  ReachedIssuedAtCheck(r) =>
          /\ r.iatNow > 0
          /\ (r.res.err = <<"token issued for future time">>) =
               (Embedded(r).token.Claims.IAT > r.iatNow \div TicksPerSec)
          /\ (r.res.err = <<>>) =
               (Embedded(r).token.Claims.IAT <= r.iatNow \div TicksPerSec)

\* A token was accepted in the very second it was issued.
C11_Witness ==
  \E t \in Threads :
    /\ ReachedIssuedAtCheck(th[t])
    /\ th[t].res.err = <<>>
    /\ Embedded(th[t]).token.Claims.IAT = th[t].iatNow \div TicksPerSec

\* C12: a ParseAndVerify of a string without exactly two dots is over at
\* once, rejected as malformed, with nothing decoded, no lookup, no fetch and
\* no clock reading.
C12_WrongSegmentCountIsMalformed ==
  \A t \in Threads :
    LET r == th[t]
    IN  r.op = "verify" /\ NumDots(r.tok) # 2 =>
          /\ r.pc = "done"
          /\ r.res = [err |-> <<"malformed token">>, isNil |-> TRUE, token |-> NoJWT]
          /\ r.kid = ""
          /\ r.key = NoKey
          /\ r.nfetch = 0 /\ r.doc = DocNone
          /\ r.chkNow = 0 /\ r.expNow = 0 /\ r.iatNow = 0

\* The empty string was rejected as malformed.
C12_Witness ==
  \E t \in Threads :
    /\ Verified(th[t])
    /\ th[t].tok = <<>>
    /\ th[t].res.err = <<"malformed token">>

\* The finished call r was given three segments, the third of them empty.
EmptySignature(r) == Verified(r) /\ NumDots(r.tok) = 2 /\ Split(r.tok)[3] = <<>>

Tampered(tok, x) ==
  /\ NumDots(x) = 2
  /\ Len(tok) = Len(x)
  /\ Cardinality({i \in 1..Len(x) : tok[i] # x[i]}) = 1
  /\ \A i \in 1..Len(x) : tok[i] # x[i] => i > Len(x) - Len(Split(x)[3])

\* The token x would pass every check of the finished call r.
OtherwiseValid(x, r) ==
  LET p == parseJWT(Split(x)[1], Split(x)[2], Split(x)[3])
  IN  /\ ~p.err
      /\ p.token.Header.ALG = "RS256"
      /\ ~RefreshFailed(r)
      /\ p.token.Header.KID \in DOMAIN publicKeys
      /\ verifySignature(Split(x)[1] \o <<Dot>> \o Split(x)[2], Split(x)[3],
                         publicKeys[p.token.Header.KID])
      /\ p.token.Claims.ISS = "https://accounts.google.com"
      /\ p.token.Claims.AUD = ClientID
      /\ p.token.Claims.EXP > WholeSeconds(ReadAt(r.expNow))
      /\ p.token.Claims.IAT <= WholeSeconds(ReadAt(r.iatNow))

\* C14 as claimed: a token that differs in one byte of the signature segment
\* from a token that would be accepted is rejected at the signature check.
C14_TamperedSignatureIsRejected ==
  \A t \in Threads :
    \A x \in env.tokens :
      LET r == th[t]
      IN  Verified(r) /\ Tampered(r.tok, x) /\ OtherwiseValid(x, r) =>
            r.res.err = <<"verify signature">>

\* C15: a call whose fetch gave a document with at least one entry, every
\* entry with a non-empty identifier and non-empty base64url modulus and
\* exponent, has decoded it without error; the identifiers of the map it
\* built, and of the map stored once it has installed it, are the identifiers
\* of the document.
C15_KeySetHasTheDocumentsIdentifiers ==
  \A t \in Threads :
    LET r == th[t]
    IN  r.doc.kind = "object" /\ ~BadDoc(r.doc) =>
          /\ r.pc \in {"lock", "lockwait", "setkeys", "setexpire", "unlock",
                        "rlock2", "read", "done"}
          /\ r.pc = "done" => r.res.err = <<>>
          /\ DOMAIN r.m = KidsOf(r.doc)
          /\ Cardinality(DOMAIN r.m) >= 1
          /\ r.pc \in {"unlock", "rlock2", "read", "done"} =>
               DOMAIN publicKeys = KidsOf(r.doc)

\* A document that names one identifier twice was installed.
C15_Witness ==
  \E t \in Threads :
    /\ th[t].pc = "rlock2"
    /\ Len(th[t].doc.keys) = 2
    /\ th[t].doc.keys[1].kid = th[t].doc.keys[2].kid
    /\ DOMAIN publicKeys = {th[t].doc.keys[1].kid}

\* The call r is over with an error of the decoder.
DecodeFailed(r) ==
  /\ r.pc = "done"
  /\ r.doc.kind \notin {"none", "fetcherr"}
  /\ r.res.err # <<>>

\* The error of the decoder in the error of the call r, without what
\* retrieveKey and ParseAndVerify put in front of it.
DecoderError(r) == IF r.op = "new" THEN Tail(r.res.err) ELSE Tail(Tail(r.res.err))

\* The first entry of the document without an identifier, modulus or
\* exponent, or 0.
FirstIncomplete(doc) ==
  LET bad == {i \in 1..Len(doc.keys) :
                doc.keys[i].kid = "" \/ doc.keys[i].n = <<>> \/ doc.keys[i].e = <<>>}
  IN  IF bad = {} THEN 0 ELSE CHOOSE i \in bad : \A j \in bad : i <= j

\* The document has an incomplete entry, and its entries before that one are
\* well formed.
IncompleteEntry(doc) ==
  /\ doc.kind = "object" /\ doc.hasKeys
  /\ FirstIncomplete(doc) > 0
  /\ \A j \in 1..(FirstIncomplete(doc) - 1) :
       Base64URL(doc.keys[j].n) /\ Base64URL(doc.keys[j].e)

C17_FreshLookupsDoNotBlock ==
  /\ \A t \in Threads :
       th[t].pc = "rlock" => ((ENABLED RLock(t)) = (muWriter = NoThread))
  /\ \A t \in Threads : th[t].pc = "fresh" => ENABLED ReadKey(t)
  /\ muWriter # NoThread =>
       th[muWriter].pc \in {"lockwait", "setkeys", "setexpire", "unlock"}

\* Two threads hold the shared lock at once, both having found the cache
\* fresh.
C17_Witness ==
  /\ \A t \in Threads : th[t].pc = "fresh" /\ t \in muReaders
  /\ Cardinality(muReaders) = 2

\* C18: a thread about to fetch, or back from the fetch and the decoding,
\* holds the lock neither shared nor exclusively; a thread is inside
\* Lock() .. Unlock() only to wait for the readers and to assign the map and
\* the deadline, and holds the lock shared only for the test of the deadline
\* and the reading of the map.
C18_NoLockHeldOverFetch ==
  \A t \in Threads :
    /\ th[t].pc \in {"fetch", "lock"} => t \notin muReaders /\ muWriter # t
    /\ th[t].pc = "done" => t \notin muReaders /\ muWriter # t
    /\ muWriter = t => th[t].pc \in {"lockwait", "setkeys", "setexpire", "unlock"}
    /\ muWriter = t /\ muHeld => th[t].pc \in {"setkeys", "setexpire", "unlock"}
    /\ t \in muReaders => th[t].pc \in {"stale", "fresh", "read"}

\* While one thread is about to fetch, another holds the shared lock.
C18_Witness ==
  \E t, u \in Threads :
    /\ th[t].pc = "fetch"
    /\ t \notin muReaders
    /\ u \in muReaders
    /\ installed.any

\* C19: each refresher has stored its own map and deadline when it comes to
\* Unlock(); whenever no thread is inside Lock() .. Unlock() the stored pair
\* is the pair of the last refresher to leave, whole, and its map is what the
\* decoder makes of one document the fetch function gave.
C19_RedundantRefreshesInstallWholeResults ==
  /\ \A t \in Threads :
       th[t].pc = "unlock" => publicKeys = th[t].m /\ keyExpire = th[t].expires
  /\ muWriter = NoThread =>
       publicKeys = installed.keys /\ keyExpire = installed.expire
  /\ installed.any =>
       \E doc \in env.docs :
         /\ ~BadDoc(doc)
         /\ DOMAIN installed.keys = KidsOf(doc)
         /\ \A i \in 1..Len(doc.keys) :
              (\A j \in (i + 1)..Len(doc.keys) : doc.keys[j].kid # doc.keys[i].kid) =>
                installed.keys[doc.keys[i].kid].N = SetBytes(DecodeString(doc.keys[i].n).bytes)

\* After the deadline of an installed key set has passed, two threads are
\* in the fetch at once.
C19_Witness ==
  /\ \A t \in Threads : th[t].pc = "fetch" /\ th[t].op = "verify"
  /\ installed.any

\* C20: when a ParseAndVerify is over and the deadline stored at the return
\* of the thread's previous ParseAndVerify has not passed, the call has not
\* fetched, the stored map and deadline are those of that return, and if the
\* token and the clock readings are those of the previous call the result
\* is that of the previous call.
C20_FreshCallChangesNothing ==
  \A t \in Threads :
    LET r == th[t]
        p == th[t].last
    IN  Verified(r) /\ p.any /\ now <= p.expire =>
          /\ r.nfetch = 0
          /\ fetches = p.fetches
          /\ publicKeys = p.keys
          /\ keyExpire = p.expire
          /\ (r.tok = p.tok /\ r.expNow = p.expNow /\ r.iatNow = p.iatNow) =>
               r.res = p.res

\* The same token was accepted twice at the same clock reading.
C20_Witness ==
  \E t \in Threads :
    /\ Verified(th[t])
    /\ th[t].last.any
    /\ now <= th[t].last.expire
    /\ th[t].tok = th[t].last.tok
    /\ th[t].expNow = th[t].last.expNow
    /\ th[t].iatNow = th[t].last.iatNow
    /\ th[t].res.err = <<>>
    /\ th[t].last.res.err = <<>>

\* The finished call r got as far as the key lookup.
ReachedKeyResolution(r) ==
  Verified(r) /\ Decodes(r) /\ Embedded(r).token.Header.ALG = "RS256"

\* The call on record ended with the error of a lookup whose refresh failed.
LastRefreshFailed(p) == p.any /\ p.res.err # <<>> /\ p.res.err[1] = "retrieve key"

\* C21: a ParseAndVerify calls the fetch function at most once: not before
\* and not when it finds the cache fresh, once when it found it stale; a call
\* rejected before the key lookup has not fetched; a call whose attempt
\* failed is over after that one attempt, and the next call that comes to the
\* key lookup has made one attempt of its own.
C21_OneFetchPerStaleLookup ==
  \A t \in Threads :
    LET r == th[t]
        p == th[t].last
    IN  r.op = "verify" =>
          /\ r.nfetch \in {0, 1}
          /\ r.pc \in {"rlock", "stale", "fetch", "fresh"} => r.nfetch = 0
          /\ r.pc \in {"lock", "lockwait", "setkeys", "setexpire", "unlock",
                        "rlock2", "read"} => r.nfetch = 1
          /\ Verified(r) /\ ~ReachedKeyResolution(r) => r.nfetch = 0 /\ r.doc = DocNone
          /\ RefreshFailed(r) => r.pc = "done" /\ r.nfetch = 1
          /\ p.any /\ Verified(r) => fetches = p.fetches + r.nfetch
          /\ LastRefreshFailed(p) /\ ReachedKeyResolution(r) => r.nfetch = 1

\* After a call whose refresh failed, the next call has made an attempt of
\* its own, which failed too.
C21_Witness ==
  \E t \in Threads :
    /\ LastRefreshFailed(th[t].last)
    /\ Verified(th[t])
    /\ RefreshFailed(th[t])
    /\ fetches = th[t].last.fetches + 1

\* The thread is inside the key lookup of a call.
InLookup(t) ==
  th[t].pc \in {"rlock", "stale", "fresh", "fetch", "lock", "lockwait", "setkeys",
                "setexpire", "unlock", "rlock2", "read"}

\* C22: under fair scheduling, a thread whose calls of the fetch function
\* always return sees every key lookup it has started return, whatever the
\* other threads do and however long they stay inside the fetch function;
\* the rest of the call, after the lookup, holds no lock and waits for none.
C22_EveryLookupReturns ==
  /\ [](\A t \in Threads :
         th[t].pc \in {"verify", "iat", "done"} => t \notin muReaders /\ muWriter # t)
  /\ \A t \in Threads :
       ([]<>(th[t].pc # "fetch")) => (InLookup(t) ~> (th[t].pc \in {"verify", "done"}))

\* A call has refreshed the cache and returned while the other thread is
\* inside the fetch function.
C22_Witness ==
  \E t \in Threads, u \in Threads :
    /\ th[u].pc = "fetch"
    /\ Verified(th[t])
    /\ th[t].nfetch = 1
    /\ th[t].res.err = <<>>

\* C23: a step that ends a key lookup, on whichever path, leaves the thread
\* with no lock, shared or exclusive; a thread leaves the shared lock only at
\* an RUnlock() of its own, each RUnlock() releases a lock the thread holds,
\* and the thread took it at one RLock() made while it held none.
C23_LookupReturnsWithoutLock ==
  [][\A t \in Threads :
       LET a == th[t].pc
           b == th'[t].pc
       IN  /\ InLookup(t) /\ b \in {"verify", "done"} =>
                t \notin muReaders' /\ muWriter' # t
           /\ t \in muReaders /\ t \notin muReaders' =>
                a \in {"stale", "fresh", "read"} /\ b # a
           /\ a \in {"stale", "fresh", "read"} /\ b # a =>
                t \in muReaders /\ t \notin muReaders'
           /\ t \notin muReaders /\ t \in muReaders' =>
                a \in {"rlock", "rlock2"} /\ b \in {"stale", "fresh", "read"}
           /\ a \in {"rlock", "rlock2"} /\ b # a =>
                t \notin muReaders /\ t \in muReaders']_vars

\* A lookup has returned a decode error, its thread holding no lock, while
\* the other thread holds the shared lock.
C23_Witness ==
  \E t \in Threads, u \in Threads :
    /\ th[t].op = "verify"
    /\ th[t].pc = "done"
    /\ BadDoc(th[t].doc)
    /\ t \notin muReaders
    /\ muWriter # t
    /\ u \in muReaders

\* C24 as claimed: whenever a lookup is about to read the key it returns,
\* on the fresh path or after its own refresh, the stored deadline has not
\* passed.
C24_KeyReadBeforeDeadline ==
  \A t \in Threads :
    th[t].pc \in {"fresh", "read"} => ~(keyExpire < now)

\* C24, amended: a lookup reads the key it returns under the shared lock,
\* from the pair stored at that moment; on the fresh path the stored deadline
\* had not passed at the clock reading of the lookup's test, and after the
\* lookup's own refresh the pair is the whole result of a completed install
\* (its own or a later one), read without a new test of the deadline.
C24_KeyReadFromTestedOrRefreshedSet ==
  \A t \in Threads :
    /\ th[t].pc = "fresh" =>
         t \in muReaders /\ th[t].nfetch = 0 /\ ~(keyExpire < th[t].chkNow)
    /\ th[t].pc = "read" =>
         /\ t \in muReaders
         /\ th[t].nfetch = 1
         /\ installed.any
         /\ publicKeys = installed.keys
         /\ keyExpire = installed.expire

\* After its own refresh a lookup is about to read from a pair another
\* thread has installed since, whose deadline has passed.
C24_Witness ==
  \E t \in Threads :
    /\ th[t].pc = "read"
    /\ th[t].op = "verify"
    /\ keyExpire < now
    /\ publicKeys # th[t].m

\* C25 as claimed: with a fetch function that returns a later deadline the
\* later it is called, no step makes the stored deadline decrease.
C25_StoredDeadlineNeverDecreases ==
  [][keyExpire' >= keyExpire]_vars

\* C26: a finished ParseAndVerify has returned a token exactly when it has
\* returned no error; with an error, at whichever check, the token is nil
\* and carries nothing of what was decoded; without one it is the decoded
\* token.
C26_TokenIffNoError ==
  \A t \in Threads :
    LET r == th[t]
    IN  Verified(r) =>
          /\ r.res.isNil = (r.res.err # <<>>)
          /\ r.res.err # <<>> => r.res.token = NoJWT
          /\ r.res.err = <<>> => Decodes(r) /\ r.res.token = Embedded(r).token

\* A token that decodes and passes every check but the last is rejected,
\* and nothing is returned with the error.
C26_Witness ==
  \E t \in Threads :
    /\ Verified(th[t])
    /\ Decodes(th[t])
    /\ th[t].res.err = <<"token issued for future time">>
    /\ th[t].res.isNil
    /\ Embedded(th[t]).token # NoJWT

\* The big-endian unsigned integer a byte string encodes.
BigEndian(b) ==
  LET val[i \in 0..Len(b)] == IF i = 0 THEN 0 ELSE val[i - 1] * 256 + b[i]
  IN  val[Len(b)]

\* The thread has built its map m from the document doc and not yet returned.
HasBuilt(r) == r.pc \in {"lock", "lockwait", "setkeys", "setexpire", "unlock"}

\* Entry i of the document is the one the map keeps for its identifier.
Kept(doc, i) == \A j \in (i + 1)..Len(doc.keys) : doc.keys[j].kid # doc.keys[i].kid

\* C27 as claimed: in the map built from an accepted document, the modulus
\* and the public exponent of each entry are the big-endian integers of the
\* entry's decoded bytes, whatever the length of the exponent.
C27_StoredNumbersAreTheEncodedOnes ==
  \A t \in Threads :
    HasBuilt(th[t]) =>
      \A i \in 1..Len(th[t].doc.keys) :
        LET v == th[t].doc.keys[i]
        IN  Kept(th[t].doc, i) =>
              /\ th[t].m[v.kid].N = BigEndian(DecodeString(v.n).bytes)
              /\ th[t].m[v.kid].E = BigEndian(DecodeString(v.e).bytes)

\* C27, amended: the modulus is the big-endian integer of the decoded bytes;
\* so is the exponent when that integer fits the signed machine word, and
\* otherwise the stored exponent is the word that agrees with it in its low
\* bits.
C27_ExponentIsTheEncodedOneWhenItFits ==
  \A t \in Threads :
    HasBuilt(th[t]) =>
      \A i \in 1..Len(th[t].doc.keys) :
        LET v == th[t].doc.keys[i]
            e == BigEndian(DecodeString(v.e).bytes)
            key == th[t].m[v.kid]
        IN  Kept(th[t].doc, i) =>
              /\ key.N = BigEndian(DecodeString(v.n).bytes)
              /\ e < 2 ^ (WordBits - 1) => key.E = e
              /\ key.E >= -(2 ^ (WordBits - 1))
              /\ key.E < 2 ^ (WordBits - 1)
              /\ (key.E - e) % (2 ^ WordBits) = 0

\* A map has been built from a document whose exponent is wider than the
\* word, and holds the exponent's low bits.
C27_Witness ==
  \E t \in Threads :
    /\ HasBuilt(th[t])
    /\ th[t].doc = DocWideE
    /\ BigEndian(DecodeString(WideE).bytes) >= 2 ^ (WordBits - 1)
    /\ th[t].m["k1"].E = 65537

\* The first ', '-separated directive of h that starts with "max-age", as a
\* one-element set; empty when there is none.
MaxAgeDirective(h) ==
  LET ds == SplitOn(h, CommaSpace)
  IN  {ds[i] : i \in {j \in 1..Len(ds) :
                       /\ HasPrefix(ds[j], MaxAgeName)
                       /\ \A k \in 1..(j - 1) : ~HasPrefix(ds[k], MaxAgeName)}}

\* The text of d after "max-age=", up to the next "=" if there is one.
ValueText(d) == SplitOn(SubSeq(d, Len(MaxAgeName) + 2, Len(d)), Equals)[1]

\* C28 as claimed: whatever the cache-control value, extractMaxAge has
\* returned an error or the integer that follows "max-age=" in the first
\* directive starting with "max-age", and nothing else has happened; it has
\* returned an error when no directive starts with "max-age", when the
\* directive has no "=", and when what follows "=" is not an integer.
C28_MaxAgeOrError ==
  \A t \in Threads :
    LET r == th[t].age
        ds == MaxAgeDirective(th[t].hdr)
    IN  r.called =>
          /\ ~r.panic
          /\ ds = {} => r.err # <<>>
          /\ \A d \in ds :
               /\ (\A i \in 1..Len(d) : d[i] # "=") => r.err # <<>>
               /\ r.err = <<>> =>
                    /\ HasPrefix(d, MaxAgeName \o Equals)
                    /\ ~Atoi(ValueText(d)).err
                    /\ r.maxAge = Atoi(ValueText(d)).v
               /\ HasPrefix(d, MaxAgeName \o Equals) /\ Atoi(ValueText(d)).err =>
                    r.err # <<>>

====
